---- MODULE Spec2Model ----
(***************************************************************************)
(* FileManager.py: delete a configured list of files, download a           *)
(* configured list of files from GitHub, overwrite a log file with the     *)
(* report of the attempt, and retry the whole cycle up to max_retries      *)
(* times.  One action per step of the script; the environment (file        *)
(* system faults, HTTP outcomes, response bodies, an interrupt) is         *)
(* nondeterministic.                                                       *)
(***************************************************************************)
EXTENDS Integers, Sequences, FiniteSets, TLC

\* ------------------------------------------------------------------ bounds
\* CONFIG['max_retries'] ranges over 0..MaxRetries.
MaxRetries == 2
\* The configured lists hold at most MaxFiles entries.
MaxFiles == 2

\* ------------------------------------------------------------ path algebra
\* A path is a sequence of segments.  os.path.join(folder, name).
PathJoin(folder, name) == folder \o name

\* os.path.basename(file_path): the last segment (line 80, line 114).
Basename(file_path) == <<file_path[Len(file_path)]>>

\* The first n entries of a list (all of it when it is shorter).
Prefix(s, n) == SubSeq(s, 1, IF n < Len(s) THEN n ELSE Len(s))

\* ------------------------------------------------------------ configuration
\* CONFIG['files_to_delete'] as shipped (lines 23-27).
ShippedFiles == << <<"aircraft.csv">>, <<"airports.csv">>, <<"airlines.csv">> >>

\* A list of repository paths two of which share a basename.
NestedPaths == << <<"aircraft.csv">>, <<"data", "aircraft.csv">>, <<"airports.csv">> >>

\* CONFIG['delete_folder'] (line 20) and the values of CONFIG['download_folder']
\* (line 42): the shipped one, equal to delete_folder, and a different one.
PlanefinderFolder == <<"MMM-Planefinder">>
OtherFolder == <<"downloads">>

\* The configurations: the shipped shape (the same n files deleted and
\* downloaded, in one folder), the same with a separate download folder, and
\* one downloading the paths of NestedPaths; each with every max_retries.
Config(to_delete, to_download, folder, retries) ==
    [delete_folder |-> PlanefinderFolder,
     files_to_delete |-> to_delete,
     files_to_download |-> to_download,
     download_folder |-> folder,
     max_retries |-> retries]

Configs ==
    {Config(Prefix(ShippedFiles, n), Prefix(ShippedFiles, n), folder, retries) :
        n \in 0..MaxFiles, folder \in {PlanefinderFolder, OtherFolder},
        retries \in 0..MaxRetries}
    \cup
    {Config(Prefix(ShippedFiles, n), Prefix(NestedPaths, n), PlanefinderFolder, retries) :
        n \in 0..MaxFiles, retries \in 0..MaxRetries}

\* ------------------------------------------------------------- file system
\* A file: whether it exists, and its content (bytes; for the log file, the
\* texts written to it).
File(content) == [exists |-> TRUE, content |-> content]
NoFile == [exists |-> FALSE, content |-> <<>>]

\* A file of a folder as it may be before the run.
OldFile == File(<<0>>)

\* response.content: the bodies the server may answer with.
Bodies == {<<1>>, <<2, 3>>}

FileNames == {ShippedFiles[k] : k \in 1..Len(ShippedFiles)}
FsPaths == {PathJoin(f, n) : f \in {PlanefinderFolder, OtherFolder}, n \in FileNames}

\* os.path.exists(file_path) (line 64).
PathExists(files, file_path) == files[file_path].exists

\* Mutant of OpenWB: the file is opened in append mode.
OpenWBAsAppend(file) == IF file.exists THEN file ELSE File(<<>>)

\* open(local_path, 'wb') (line 92): creates the file or truncates it.
OpenWB(file) == File(<<>>)

\* Mutant of OpenW: the file is opened in append mode.
OpenWAsAppend(file) == IF file.exists THEN file ELSE File(<<>>)

\* open(CONFIG['log_file'], 'w', encoding='utf-8') (line 151): creates or truncates.
OpenW(file) == File(<<>>)

\* f.write(data) on a file just opened: the data follows what the open left.
FileWrite(file, data) == [file EXCEPT !.content = @ \o data]

\* ------------------------------------------------------------------ report
\* Mutant of AttemptText: the label counts the attempts from zero.
AttemptTextFromZero(attempt_number) ==
    IF attempt_number > 1 THEN <<"Attempt", attempt_number - 1>> ELSE <<>>

\* attempt_text (line 124): the label is present only from attempt 2 on.
AttemptText(attempt_number) ==
    IF attempt_number > 1 THEN <<"Attempt", attempt_number>> ELSE <<>>

\* Mutant of StatusLine: the two texts exchanged.
StatusLineExchanged(errs) ==
    IF errs # <<>> THEN "COMPLETED SUCCESSFULLY" ELSE "COMPLETED WITH ERRORS"

\* The status line (line 140).
StatusLine(errs) ==
    IF errs # <<>> THEN "COMPLETED WITH ERRORS" ELSE "COMPLETED SUCCESSFULLY"

\* log_entry (lines 126-142), without the timestamp.
LogEntry(deleted, downloaded, errs, attempt_number) ==
    [attempt_text |-> AttemptText(attempt_number),
     deleted |-> deleted,
     downloaded |-> downloaded,
     errors |-> errs,
     status |-> StatusLine(errs)]

\* error_msg of delete_files (line 71) and of download_file_from_github (line 99).
DeleteErrorMsg(filename, cause) == <<"Error deleting", filename, cause>>
DownloadErrorMsg(file_path, cause) == <<"Error downloading", file_path, cause>>

\* str(e) of the exception os.remove raises (line 70), and of the
\* requests.exceptions.RequestException that requests.get (a network error or
\* a timeout) or raise_for_status (a non-success status) raises (line 98).
RemoveFailures == {"OSError"}
RequestExceptions == {"RequestException"}

\* Log files a previous run may have left.
PriorLogs ==
    {NoFile,
     File(<<LogEntry(<<>>, <<>>, <<DownloadErrorMsg(<<"aircraft.csv">>, "RequestException")>>, 2)>>)}

\* ------------------------------------------------------------------- state
VARIABLES
    CONFIG,            \* the configuration map (lines 18-50), never mutated
    fs,                \* the file at every path of the two folders, or NoFile
    log_file,          \* the file at CONFIG['log_file'], or NoFile
    pc,                \* position of the script
    attempt,           \* loop variable of main (line 185); 0 before the loop
    idx,               \* position in the list a for loop (61, 111) iterates
    deleted_files,     \* deleted_files of delete_files / main
    downloaded_files,  \* downloaded_files of download_github_files / main
    errors,            \* errors of the running delete_files / download_github_files
    all_errors,        \* all_errors of run_file_management / main
    skipped,           \* filenames delete_files reported "[WARN] File not found (skipping)"
    response,          \* response.content last written by f.write (line 93) in this attempt
    fetched,           \* the response.content of each download reported in this attempt
    log_success,       \* return value of log_completion in this attempt
    log_calls,         \* number of log_completion calls of this attempt
    sleeps,            \* number of time.sleep calls of this run
    exit_code,         \* argument of sys.exit; -1 while running
    exit_line          \* source line of the sys.exit taken; 0 while running

vars == <<CONFIG, fs, log_file, pc, attempt, idx, deleted_files, downloaded_files,
          errors, all_errors, skipped, response, fetched, log_success, log_calls, sleeps,
          exit_code, exit_line>>

locals == <<deleted_files, downloaded_files, errors, all_errors, skipped, response,
            fetched,
            log_success, log_calls>>
exits == <<exit_code, exit_line>>

\* exit_code while the process runs.
Running == 0 - 1

\* The paths the run of configuration c may touch.
DeletePaths(c) ==
    {PathJoin(c.delete_folder, c.files_to_delete[k]) : k \in 1..Len(c.files_to_delete)}
DownloadPaths(c) ==
    {PathJoin(c.download_folder, Basename(c.files_to_download[k])) :
        k \in 1..Len(c.files_to_download)}

\* Files before the run: a file to delete is present or absent; the files of a
\* separate download folder are all present or all absent; nothing else exists.
InitFs(c) ==
    {f \in [FsPaths -> {NoFile, OldFile}] :
        /\ \A p \in FsPaths \ (DeletePaths(c) \cup DownloadPaths(c)) : f[p] = NoFile
        /\ \A p, q \in DownloadPaths(c) \ DeletePaths(c) : f[p] = f[q]}

Init ==
    /\ CONFIG \in Configs
    /\ fs \in InitFs(CONFIG)
    /\ log_file \in PriorLogs
    /\ pc = "start"
    /\ attempt = 0
    /\ idx = 0
    /\ deleted_files = <<>>
    /\ downloaded_files = <<>>
    /\ errors = <<>>
    /\ all_errors = <<>>
    /\ skipped = <<>>
    /\ response = <<>>
    /\ fetched = <<>>
    /\ log_success = FALSE
    /\ log_calls = 0
    /\ sleeps = 0
    /\ exit_code = Running
    /\ exit_line = 0

\* sys.exit(code) at source line `line`.
SysExit(code, line) ==
    /\ pc' = "exit"
    /\ exit_code' = code
    /\ exit_line' = line

\* A for loop (lines 61, 111) goes on to its next iteration.
NextIteration ==
    /\ idx' = idx + 1
    /\ UNCHANGED <<pc, exit_code, exit_line>>

\* Mutant of RaiseInAttempt: the exception is not caught in the loop and
\* reaches the handler of __main__ (lines 256-258).
RaiseEscapesMain ==
    /\ SysExit(1, 258)
    /\ UNCHANGED idx

\* An exception raised inside the try block of the attempt (lines 188-234)
\* reaches the handler of line 236.
RaiseInAttempt ==
    /\ pc' = "except"
    /\ UNCHANGED <<idx, exit_code, exit_line>>

\* The for statement of main (line 185) takes the next value of
\* range(1, max_retries + 1) and enters the attempt (run_file_management,
\* delete_files: lines 163, 58-59), or falls out of the loop.
ForNext ==
    IF attempt + 1 <= CONFIG.max_retries
    THEN /\ attempt' = attempt + 1
         /\ pc' = "delete"
         /\ idx' = 1
         /\ deleted_files' = <<>>
         /\ downloaded_files' = <<>>
         /\ errors' = <<>>
         /\ all_errors' = <<>>
         /\ skipped' = <<>>
         /\ response' = <<>>
         /\ fetched' = <<>>
         /\ log_success' = FALSE
         /\ log_calls' = 0
    ELSE /\ pc' = "after_loop"
         /\ UNCHANGED <<attempt, idx, locals>>

\* main is entered (lines 177-185).
Start ==
    /\ pc = "start"
    /\ ForNext
    /\ UNCHANGED <<CONFIG, fs, log_file, sleeps, exits>>

\* ----------------------------------------------------------------- Deleter
\* Mutant of DeleteSkip: the absent file is removed without the test and the
\* failure recorded.
DeleteSkipAsError(filename) ==
    /\ errors' = Append(errors, DeleteErrorMsg(filename, "FileNotFoundError"))
    /\ NextIteration
    /\ UNCHANGED <<fs, deleted_files, skipped>>

\* os.path.exists is false (lines 68-69): the file is reported as skipped.
DeleteSkip(filename) ==
    /\ skipped' = Append(skipped, filename)
    /\ NextIteration
    /\ UNCHANGED <<fs, deleted_files, errors>>

\* Mutant of DeleteRemove: the file is reported deleted but stays.
DeleteRemoveKeepsFile(filename, file_path) ==
    /\ deleted_files' = Append(deleted_files, filename)
    /\ NextIteration
    /\ UNCHANGED <<fs, errors, skipped>>

\* os.remove succeeds (lines 65-67).
DeleteRemove(filename, file_path) ==
    /\ fs' = [fs EXCEPT ![file_path] = NoFile]
    /\ deleted_files' = Append(deleted_files, filename)
    /\ NextIteration
    /\ UNCHANGED <<errors, skipped>>

\* Mutant of DeleteError: the exception of os.remove is not caught.
DeleteErrorRaises(filename, cause) ==
    /\ RaiseInAttempt
    /\ UNCHANGED <<fs, deleted_files, errors, skipped>>

\* os.remove raises (lines 70-73): the message is recorded, the loop goes on.
DeleteError(filename, cause) ==
    /\ errors' = Append(errors, DeleteErrorMsg(filename, cause))
    /\ NextIteration
    /\ UNCHANGED <<fs, deleted_files, skipped>>

\* One iteration of the loop of delete_files (lines 61-73).
DeleteFile ==
    /\ pc = "delete"
    /\ idx <= Len(CONFIG.files_to_delete)
    /\ LET filename == CONFIG.files_to_delete[idx]
           file_path == PathJoin(CONFIG.delete_folder, filename)
       IN  IF PathExists(fs, file_path)
           THEN \/ DeleteRemove(filename, file_path)
                \/ \E cause \in RemoveFailures : DeleteError(filename, cause)
           ELSE DeleteSkip(filename)
    /\ UNCHANGED <<CONFIG, log_file, attempt, downloaded_files, all_errors, response, fetched,
                   log_success, log_calls, sleeps>>

\* delete_files returns (line 75); run_file_management extends all_errors
\* (lines 167-168) and calls download_github_files (lines 172, 105-106).
DeleteReturn ==
    /\ pc = "delete"
    /\ idx > Len(CONFIG.files_to_delete)
    /\ all_errors' = all_errors \o errors
    /\ errors' = <<>>
    /\ pc' = "mkdir"
    /\ UNCHANGED <<CONFIG, fs, log_file, attempt, idx, deleted_files, downloaded_files,
                   skipped, response, fetched, log_success, log_calls, sleeps, exits>>

\* -------------------------------------------------------------- Downloader
\* ensure_directory_exists(CONFIG['download_folder']) (line 109) returns, or
\* mkdir raises an OSError nothing below main catches.
EnsureDownloadDir ==
    /\ pc = "mkdir"
    /\ \/ /\ pc' = "download"
          /\ idx' = 1
          /\ UNCHANGED exits
       \/ RaiseInAttempt
    /\ UNCHANGED <<CONFIG, fs, log_file, attempt, locals, sleeps>>

\* requests.get answers with a success status and `body`, the file is opened
\* 'wb' and the body written (lines 87-96); download_github_files appends the
\* basename (lines 113-114).
DownloadSave(file_path, local_path, body) ==
    /\ response' = body
    /\ fetched' = Append(fetched, body)
    /\ fs' = [fs EXCEPT ![local_path] = FileWrite(OpenWB(@), body)]
    /\ downloaded_files' = Append(downloaded_files, Basename(file_path))
    /\ NextIteration
    /\ UNCHANGED errors

\* Mutant of DownloadError: the destination is opened before the request is
\* made, so a failed request leaves it empty.
DownloadErrorTruncates(file_path, cause) ==
    /\ errors' = Append(errors, DownloadErrorMsg(file_path, cause))
    /\ fs' = [fs EXCEPT ![PathJoin(CONFIG.download_folder, Basename(file_path))] = OpenWB(@)]
    /\ NextIteration
    /\ UNCHANGED <<downloaded_files, response, fetched>>

\* Mutant of DownloadError: the failure is printed but not returned.
DownloadErrorSwallowed(file_path, cause) ==
    /\ NextIteration
    /\ UNCHANGED <<fs, downloaded_files, errors, response, fetched>>

\* Mutant of DownloadError: the failure is recorded and the loop left.
DownloadErrorBreaks(file_path, cause) ==
    /\ errors' = Append(errors, DownloadErrorMsg(file_path, cause))
    /\ idx' = Len(CONFIG.files_to_download) + 1
    /\ UNCHANGED <<pc, exit_code, exit_line, fs, downloaded_files, response, fetched>>

\* requests.get or raise_for_status raises a RequestException (lines 98-101);
\* download_github_files appends the message (lines 115-116).
DownloadError(file_path, cause) ==
    /\ errors' = Append(errors, DownloadErrorMsg(file_path, cause))
    /\ NextIteration
    /\ UNCHANGED <<fs, downloaded_files, response, fetched>>

\* The response is fine but open (line 92) raises an OSError: it is no
\* RequestException, so it leaves download_file_from_github,
\* download_github_files and run_file_management.
DownloadOpenRaises ==
    /\ RaiseInAttempt
    /\ UNCHANGED <<fs, downloaded_files, errors, response, fetched>>

\* The file is opened (created or truncated) and f.write (line 93) raises an
\* OSError.
DownloadWriteRaises(local_path) ==
    /\ fs' = [fs EXCEPT ![local_path] = OpenWB(@)]
    /\ RaiseInAttempt
    /\ UNCHANGED <<downloaded_files, errors, response, fetched>>

\* One iteration of the loop of download_github_files (lines 111-116), with
\* the call of download_file_from_github (lines 77-101).
DownloadFile ==
    /\ pc = "download"
    /\ idx <= Len(CONFIG.files_to_download)
    /\ LET file_path == CONFIG.files_to_download[idx]
           local_filename == Basename(file_path)
           local_path == PathJoin(CONFIG.download_folder, local_filename)
       IN  \/ \E body \in Bodies : DownloadSave(file_path, local_path, body)
           \/ \E cause \in RequestExceptions : DownloadError(file_path, cause)
           \/ DownloadOpenRaises
           \/ DownloadWriteRaises(local_path)
    /\ UNCHANGED <<CONFIG, log_file, attempt, deleted_files, all_errors, skipped,
                   log_success, log_calls, sleeps>>

\* Mutant of DownloadReturn: an attempt with errors goes to the decision
\* without the log call.
DownloadReturnSkipsLog ==
    /\ pc = "download"
    /\ idx > Len(CONFIG.files_to_download)
    /\ all_errors' = all_errors \o errors
    /\ errors' = <<>>
    /\ pc' = (IF all_errors \o errors = <<>> THEN "log" ELSE "decide")
    /\ UNCHANGED <<CONFIG, fs, log_file, attempt, idx, deleted_files, downloaded_files,
                   skipped, response, fetched, log_success, log_calls, sleeps, exits>>

\* download_github_files returns (line 118); run_file_management extends
\* all_errors and returns (lines 173-175).
DownloadReturn ==
    /\ pc = "download"
    /\ idx > Len(CONFIG.files_to_download)
    /\ all_errors' = all_errors \o errors
    /\ errors' = <<>>
    /\ pc' = "log"
    /\ UNCHANGED <<CONFIG, fs, log_file, attempt, idx, deleted_files, downloaded_files,
                   skipped, response, fetched, log_success, log_calls, sleeps, exits>>

\* ------------------------------------------------------------------ Logger
\* Mutant of LogWrite: the entry is appended to what the file holds.
LogWriteAppend(entry) ==
    /\ log_file' = FileWrite(IF log_file.exists THEN log_file ELSE File(<<>>), <<entry>>)
    /\ log_success' = TRUE

\* The log file is opened 'w' and the entry written (lines 151-155).
LogWrite(entry) ==
    /\ log_file' = FileWrite(OpenW(log_file), <<entry>>)
    /\ log_success' = TRUE

\* ensure_directory_exists or open raises (lines 146-151, 157-159).
LogOpenRaises ==
    /\ log_file' = log_file
    /\ log_success' = FALSE

\* The file is opened (created or truncated) and the write raises (157-159).
LogWriteRaises ==
    /\ log_file' = OpenW(log_file)
    /\ log_success' = FALSE

\* log_completion(deleted_files, downloaded_files, all_errors, attempt)
\* (line 194, lines 120-159).
LogCompletion ==
    /\ pc = "log"
    /\ LET entry == LogEntry(deleted_files, downloaded_files, all_errors, attempt)
       IN  \/ LogWrite(entry)
           \/ LogOpenRaises
           \/ LogWriteRaises
    /\ log_calls' = log_calls + 1
    /\ pc' = "decide"
    /\ UNCHANGED <<CONFIG, fs, attempt, idx, deleted_files, downloaded_files, errors,
                   all_errors, skipped, response, fetched, sleeps, exits>>

\* ------------------------------------------------------------ Orchestrator
\* Mutant of NoErrors: the success test reads the log result, not the errors.
NoErrorsAsLogSuccess == log_success

\* `if not all_errors` (line 197).
NoErrors == all_errors = <<>>

\* Mutant of RetryAfterErrors: the comparison is off by one.
RetryAfterErrorsOffByOne == attempt <= CONFIG.max_retries

\* Mutant of RetryAfterErrors: the attempt number is not compared at all.
RetryAfterErrorsUnbounded == TRUE

\* Mutant of RetryAfterErrors: no retry after a failed log write.
RetryAfterErrorsIfLogged == attempt < CONFIG.max_retries /\ log_success

\* `if attempt < CONFIG['max_retries']` after an attempt with errors (line 220).
RetryAfterErrors == attempt < CONFIG.max_retries

\* Mutant of RetryAfterException: the handler always sleeps and goes on.
RetryAfterExceptionAlways == TRUE

\* `if attempt < CONFIG['max_retries']` in the exception handler (line 238).
RetryAfterException == attempt < CONFIG.max_retries

\* time.sleep(delay_seconds) is called (lines 227, 241).
CallSleep ==
    /\ pc' = "sleep"
    /\ sleeps' = sleeps + 1
    /\ UNCHANGED exits

\* The decision after the log call (lines 197-234).
Decide ==
    /\ pc = "decide"
    /\ IF NoErrors
       THEN SysExit(0, 208) /\ UNCHANGED sleeps
       ELSE IF RetryAfterErrors
            THEN CallSleep
            ELSE SysExit(1, 234) /\ UNCHANGED sleeps
    /\ UNCHANGED <<CONFIG, fs, log_file, attempt, idx, locals>>

\* `except Exception` of the attempt (lines 236-244).
Except ==
    /\ pc = "except"
    /\ IF RetryAfterException
       THEN CallSleep
       ELSE SysExit(1, 244) /\ UNCHANGED sleeps
    /\ UNCHANGED <<CONFIG, fs, log_file, attempt, idx, locals>>

\* time.sleep returns and the for statement goes on (lines 227/241, 185).
Sleep ==
    /\ pc = "sleep"
    /\ ForNext
    /\ UNCHANGED <<CONFIG, fs, log_file, sleeps, exits>>

\* The code after the loop (lines 246-248).
AfterLoop ==
    /\ pc = "after_loop"
    /\ SysExit(1, 248)
    /\ UNCHANGED <<CONFIG, fs, log_file, attempt, idx, locals, sleeps>>

\* Mutant of Interrupt: inside the try block of an attempt the interrupt is
\* handled like any exception (line 236).
InterruptAbsorbed ==
    /\ pc # "exit"
    /\ IF pc \in {"delete", "mkdir", "download", "log", "decide"}
       THEN pc' = "except" /\ UNCHANGED exits
       ELSE SysExit(1, 255)
    /\ UNCHANGED <<CONFIG, fs, log_file, attempt, idx, locals, sleeps>>

\* A KeyboardInterrupt arrives while main runs: no `except Exception` catches
\* it, the handler of __main__ exits with 1 (lines 253-255).
Interrupt ==
    /\ pc # "exit"
    /\ SysExit(1, 255)
    /\ UNCHANGED <<CONFIG, fs, log_file, attempt, idx, locals, sleeps>>

Next ==
    \/ Start
    \/ DeleteFile
    \/ DeleteReturn
    \/ EnsureDownloadDir
    \/ DownloadFile
    \/ DownloadReturn
    \/ LogCompletion
    \/ Decide
    \/ Except
    \/ Sleep
    \/ AfterLoop
    \/ Interrupt

Spec == Init /\ [][Next]_vars

\* ------------------------------------------------------------------- types
TypeOK ==
    /\ CONFIG \in Configs
    /\ pc \in {"start", "delete", "mkdir", "download", "log", "decide", "except", "sleep",
               "after_loop", "exit"}
    /\ attempt \in 0..MaxRetries
    /\ exit_code \in {Running, 0, 1}
    /\ exit_line \in {0, 208, 234, 244, 248, 255, 258}
    /\ log_success \in BOOLEAN
    /\ Len(fetched) = Len(downloaded_files)
    /\ \A k \in 1..Len(fetched) : fetched[k] \in Bodies
    /\ \A p \in FsPaths : fs[p] \in {NoFile, OldFile, File(<<>>)} \cup {File(b) : b \in Bodies}

\* ------------------------------------------------------- derived notions
Range(s) == {s[k] : k \in 1..Len(s)}

Exited == pc = "exit"

\* The attempt running: run_file_management has returned (log_completion was
\* called with its results).
AttemptFinished == log_calls = 1

\* The status line of a log file; "" when the file is absent or empty.
StatusOf(file) ==
    IF file.exists /\ file.content # <<>>
    THEN file.content[Len(file.content)].status
    ELSE ""

\* ---------------------------------------------------------------- claims
\* C1: with max_retries >= 1 the process exits with code 0 exactly when the
\* last attempt it executed finished (delete and download steps returned) with
\* no delete error and no download error and the run was not interrupted; in
\* every other case (errors left in the final attempt, an unexpected exception
\* in it, an interrupt) it exits with code 1.  Only the final attempt's errors
\* enter the condition.
C1_ExitCode ==
    (Exited /\ CONFIG.max_retries >= 1) =>
        /\ exit_code \in {0, 1}
        /\ exit_code = 0 <=> (AttemptFinished /\ all_errors = <<>> /\ exit_line # 255)

\* An exit with code 0 in an attempt that follows a failed one.
C1_Witness == Exited /\ exit_code = 0 /\ attempt >= 2 /\ sleeps >= 1

\* C2 as claimed: at exit the log file's status line agrees with the exit
\* code, whatever happened to the log write and whatever the file held.
C2_LogAgreesAlways ==
    Exited =>
        /\ exit_code = 0 => StatusOf(log_file) = "COMPLETED SUCCESSFULLY"
        /\ exit_line = 234 => StatusOf(log_file) = "COMPLETED WITH ERRORS"

\* C2, amended: when the process exits with code 0, or with code 1 at the end
\* of an attempt with errors, and the log write of that attempt succeeded, the
\* status line of the log file is "COMPLETED SUCCESSFULLY", respectively
\* "COMPLETED WITH ERRORS".
C2_LogAgreesWhenWritten ==
    (Exited /\ log_success) =>
        /\ exit_code = 0 => StatusOf(log_file) = "COMPLETED SUCCESSFULLY"
        /\ exit_line = 234 => StatusOf(log_file) = "COMPLETED WITH ERRORS"

\* An exit with code 1 after an attempt with errors whose log write succeeded.
C2_Witness == Exited /\ exit_line = 234 /\ log_success /\ all_errors # <<>>

\* The positions inside an attempt (ATTEMPT(n) of the state machine).
InAttempt == pc \in {"delete", "mkdir", "download", "log", "decide", "except"}

\* C3 as claimed: at the exit with code 0 that ends attempt k the log file
\* holds attempt k's report and nothing else.
C3_LogIsAttemptK ==
    (Exited /\ exit_line = 208) =>
        /\ log_file.exists
        /\ Len(log_file.content) = 1
        /\ log_file.content[1].deleted = deleted_files
        /\ log_file.content[1].downloaded = downloaded_files
        /\ log_file.content[1].errors = <<>>

\* C3, amended: an attempt k that ends with zero errors is the last one (the
\* next step of the process is its exit, no attempt k+1 starts); the exit at
\* line 208 has code 0, comes after exactly k attempts and k-1 sleeps; and if
\* attempt k's log write succeeded the log file then holds exactly attempt k's
\* deleted list, downloaded list and empty error list.
C3_SuccessAtAttemptK ==
    /\ [](  (Exited /\ exit_line = 208) =>
              /\ exit_code = 0
              /\ all_errors = <<>>
              /\ attempt \in 1..CONFIG.max_retries
              /\ sleeps = attempt - 1
              /\ log_success =>
                    /\ log_file.exists
                    /\ Len(log_file.content) = 1
                    /\ log_file.content[1].deleted = deleted_files
                    /\ log_file.content[1].downloaded = downloaded_files
                    /\ log_file.content[1].errors = <<>>  )
    /\ [][ (pc = "decide" /\ all_errors = <<>>) =>
              /\ pc' = "exit"
              /\ attempt' = attempt
              /\ exit_line' \in {208, 255} ]_vars

\* Exit 0 at attempt 2, after a first attempt that wrote its own report, with
\* the log written and something deleted and downloaded.
C3_Witness ==
    /\ Exited /\ exit_line = 208 /\ attempt = 2 /\ log_success
    /\ deleted_files # <<>> /\ downloaded_files # <<>>

\* C4 as claimed: with max_retries = N >= 2, at the exit with code 1 after
\* attempt N the log file is attempt N's report, labelled "(Attempt N)".
C4_LogIsAttemptN ==
    (Exited /\ exit_line = 234 /\ CONFIG.max_retries >= 2) =>
        /\ log_file.exists
        /\ Len(log_file.content) = 1
        /\ log_file.content[1].attempt_text = <<"Attempt", CONFIG.max_retries>>
        /\ log_file.content[1].errors = all_errors

\* C4, amended: with max_retries = N >= 2 the process sleeps only after an
\* attempt n < N, once per finished attempt before the last; the exit with
\* code 1 at line 234 comes in attempt N after N-1 sleeps; and if attempt N's
\* log write succeeded the log file is then attempt N's report, labelled
\* "(Attempt N)".
C4_PersistentFailure ==
    CONFIG.max_retries >= 2 =>
        /\ pc = "sleep" => (attempt < CONFIG.max_retries /\ sleeps = attempt)
        /\ InAttempt => sleeps = attempt - 1
        /\ (Exited /\ exit_line = 234) =>
              /\ exit_code = 1
              /\ all_errors # <<>>
              /\ attempt = CONFIG.max_retries
              /\ sleeps = CONFIG.max_retries - 1
              /\ log_success =>
                    /\ log_file.exists
                    /\ Len(log_file.content) = 1
                    /\ log_file.content[1].attempt_text = <<"Attempt", CONFIG.max_retries>>
                    /\ log_file.content[1].deleted = deleted_files
                    /\ log_file.content[1].downloaded = downloaded_files
                    /\ log_file.content[1].errors = all_errors

\* The exit after N = max_retries failed attempts, the log written.
C4_Witness ==
    /\ Exited /\ exit_line = 234 /\ CONFIG.max_retries >= 2 /\ log_success
    /\ sleeps = CONFIG.max_retries - 1

\* C5: inside an attempt and during the sleep the attempt number n satisfies
\* 1 <= n <= max_retries; the sleep is entered only from a failed attempt
\* (errors, or an exception) with n < max_retries, and when it returns attempt
\* n+1 starts; a failed attempt with n = max_retries exits with code 1 without
\* sleeping; and no step leaves an exit.
C5_StateMachine ==
    /\ []( (InAttempt \/ pc = "sleep") => attempt \in 1..CONFIG.max_retries )
    /\ [][ (pc # "sleep" /\ pc' = "sleep") =>
              /\ attempt < CONFIG.max_retries
              /\ \/ pc = "decide" /\ all_errors # <<>>
                 \/ pc = "except" ]_vars
    /\ [][ (pc = "sleep" /\ exit_line' # 255) =>
              (pc' = "delete" /\ attempt' = attempt + 1) ]_vars
    /\ [][ (pc = "decide" /\ all_errors # <<>> /\ attempt = CONFIG.max_retries) =>
              (pc' = "exit" /\ exit_code' = 1 /\ sleeps' = sleeps) ]_vars
    /\ [][ pc # "exit" ]_vars

\* The sleep between a failed attempt 1 and attempt 2.
C5_Witness == pc = "sleep" /\ attempt = 1 /\ all_errors # <<>> /\ CONFIG.max_retries = 2

\* C6: an exception raised inside an attempt reaches the handler of the
\* attempt and never the handler of __main__ (line 256); from the handler the
\* process does what it does after an attempt with errors: with
\* attempt < max_retries it sleeps and then starts attempt + 1, with
\* attempt = max_retries it exits with code 1.
C6_ExceptionPolicy ==
    /\ [](exit_line # 258)
    /\ [][ (pc \in {"except", "decide"} /\ (pc = "decide" => all_errors # <<>>)
                /\ exit_line' # 255) =>
              IF attempt < CONFIG.max_retries
              THEN pc' = "sleep" /\ sleeps' = sleeps + 1 /\ exit_code' = Running
              ELSE pc' = "exit" /\ exit_code' = 1 /\ sleeps' = sleeps ]_vars
    /\ [][ (pc = "sleep" /\ exit_line' # 255) =>
              (pc' = "delete" /\ attempt' = attempt + 1 /\ exit_code' = Running) ]_vars

\* The sleep that follows an exception in attempt 1 (no log call was made).
C6_Witness == pc = "sleep" /\ attempt = 1 /\ log_calls = 0

\* The file delete_files is about to handle, and its path.
DeleteName == CONFIG.files_to_delete[idx]
DeletePath == PathJoin(CONFIG.delete_folder, DeleteName)

\* A message of delete_files about `filename` is in the list.
HasDeleteError(errs, filename) ==
    \E m \in Range(errs) : m[1] = "Error deleting" /\ m[2] = filename

\* C7: an iteration of delete_files on a filename absent from the delete
\* folder reports it as skipped and leaves the deleted list and the error list
\* as they are; so once delete_files has returned no skipped filename is in
\* the deleted list or has an error message.
C7_AbsentIsSkipped ==
    /\ [][ (pc = "delete" /\ idx <= Len(CONFIG.files_to_delete) /\ idx' = idx + 1
                /\ ~fs[DeletePath].exists) =>
              /\ skipped' = Append(skipped, DeleteName)
              /\ deleted_files' = deleted_files
              /\ errors' = errors
              /\ all_errors' = all_errors ]_vars
    /\ []( pc \in {"mkdir", "download", "log", "decide"} =>
              \A f \in Range(skipped) :
                  /\ f \notin Range(deleted_files)
                  /\ ~HasDeleteError(all_errors, f) )

\* delete_files has returned having skipped one file and deleted another.
C7_Witness == pc = "mkdir" /\ skipped # <<>> /\ deleted_files # <<>>

ExactlyOne(a, b, c) == (a /\ ~b /\ ~c) \/ (~a /\ b /\ ~c) \/ (~a /\ ~b /\ c)

\* Each of the first n filenames of files_to_delete is in exactly one of the
\* deleted list, the skipped reports and the error messages `errs`.
DeleteOutcomes(n, errs) ==
    /\ Len(deleted_files) + Len(skipped) + Len(errs) = n
    /\ \A k \in 1..n :
          LET f == CONFIG.files_to_delete[k]
          IN  ExactlyOne(f \in Range(deleted_files), f \in Range(skipped),
                         HasDeleteError(errs, f))

\* C8: delete_files is left only by its return (or by an interrupt), after
\* the last filename; a removal failure is recorded and the loop goes on with
\* the next filename; and every filename handled is in exactly one of deleted,
\* skipped and errors.
C8_DeleterNeverRaises ==
    /\ [][ (pc = "delete" /\ pc' # "delete" /\ exit_line' # 255) =>
              (pc' = "mkdir" /\ idx > Len(CONFIG.files_to_delete)) ]_vars
    /\ [][ (pc = "delete" /\ Len(errors') > Len(errors)) =>
              /\ pc' = "delete"
              /\ idx' = idx + 1
              /\ errors' = Append(errors, errors'[Len(errors')])
              /\ errors'[Len(errors')][2] = DeleteName ]_vars
    /\ []( pc = "delete" => DeleteOutcomes(idx - 1, errors) )
    /\ []( pc = "mkdir" => DeleteOutcomes(Len(CONFIG.files_to_delete), all_errors) )

\* delete_files has returned: the removal of the first file failed, the
\* second file was removed.
C8_Witness ==
    /\ pc = "mkdir"
    /\ Len(CONFIG.files_to_delete) = 2
    /\ HasDeleteError(all_errors, CONFIG.files_to_delete[1])
    /\ deleted_files = <<CONFIG.files_to_delete[2]>>

\* The messages of download_file_from_github in a list.
DownloadErrorsOf(errs) == SelectSeq(errs, LAMBDA m : m[1] = "Error downloading")

\* Each of the first n paths of files_to_download has its basename in the
\* downloaded list or a message in `errs`, one entry per path.
DownloadOutcomes(n, errs) ==
    /\ Len(downloaded_files) + Len(errs) = n
    /\ \A k \in 1..n :
          LET file_path == CONFIG.files_to_download[k]
          IN  \/ Basename(file_path) \in Range(downloaded_files)
              \/ \E m \in Range(errs) : m[1] = "Error downloading" /\ m[2] = file_path

\* C9: a download that fails with a RequestException (a non-success status or
\* a network error) is recorded as one error message and the loop goes on
\* with the next path; whenever download_github_files has returned, every path
\* of files_to_download has its basename in the downloaded list or an error
\* message in the error list, and |downloaded| + |errors| = |files_to_download|.
C9_DownloaderRecordsFailures ==
    /\ [][ (pc = "download" /\ Len(errors') > Len(errors)) =>
              /\ pc' = "download"
              /\ idx' = idx + 1
              /\ errors' = Append(errors, errors'[Len(errors')])
              /\ errors'[Len(errors')][2] = CONFIG.files_to_download[idx] ]_vars
    /\ []( pc = "download" => DownloadOutcomes(idx - 1, errors) )
    /\ []( pc \in {"log", "decide"} =>
              DownloadOutcomes(Len(CONFIG.files_to_download), DownloadErrorsOf(all_errors)) )

\* download_github_files has returned: the first download failed, the second
\* file was downloaded.
C9_Witness ==
    /\ pc = "log"
    /\ Len(CONFIG.files_to_download) = 2
    /\ DownloadErrorsOf(all_errors) # <<>>
    /\ DownloadErrorsOf(all_errors)[1][2] = CONFIG.files_to_download[1]
    /\ downloaded_files = <<Basename(CONFIG.files_to_download[2])>>

\* C10: the step that reports a file as downloaded leaves, at
\* download_folder/basename(path), a file whose content is exactly the body
\* of the response, whatever the file held before.
C10_FileIsResponseBody ==
    [][ (pc = "download" /\ Len(downloaded_files') > Len(downloaded_files)) =>
           LET file_path == CONFIG.files_to_download[idx]
               local_path == PathJoin(CONFIG.download_folder, Basename(file_path))
           IN  /\ downloaded_files' = Append(downloaded_files, Basename(file_path))
               /\ response' \in Bodies
               /\ fs'[local_path].exists
               /\ fs'[local_path].content = response'
               /\ \A p \in FsPaths \ {local_path} : fs'[p] = fs[p] ]_vars

\* In a separate download folder whose files all existed before the run, the
\* first file has been downloaded over its old content; the second still
\* holds the old content.
C10_Witness ==
    /\ pc = "download" /\ attempt = 1 /\ idx = 2
    /\ CONFIG.download_folder = OtherFolder
    /\ Len(CONFIG.files_to_download) = 2
    /\ Len(downloaded_files) = 1
    /\ fs[PathJoin(OtherFolder, Basename(CONFIG.files_to_download[2]))] = OldFile
    /\ fs[PathJoin(OtherFolder, Basename(CONFIG.files_to_download[1]))] = File(<<2, 3>>)
    /\ response = <<2, 3>>

\* C11: the log file is overwritten, never appended.  After a successful log
\* write the file holds exactly one report, that of the attempt that wrote it
\* (its deleted list, downloaded list, errors, attempt label and status),
\* whatever the file held before: the report of the previous attempt or of a
\* previous run of the process is gone.
C11_LogOverwritten ==
    log_success =>
        /\ log_file.exists
        /\ Len(log_file.content) = 1
        /\ log_file.content[1].deleted = deleted_files
        /\ log_file.content[1].downloaded = downloaded_files
        /\ log_file.content[1].errors = all_errors
        /\ log_file.content[1].attempt_text =
              (IF attempt > 1 THEN <<"Attempt", attempt>> ELSE <<>>)
        /\ log_file.content[1].status =
              (IF all_errors = <<>> THEN "COMPLETED SUCCESSFULLY"
                                    ELSE "COMPLETED WITH ERRORS")

\* The second attempt has written its report successfully.
C11_Witness ==
    /\ pc = "decide" /\ attempt = 2 /\ log_success
    /\ log_file.exists /\ Len(log_file.content) = 1
    /\ all_errors = <<>>

\* C12: a failed log write neither aborts the run nor changes what main does
\* next.  The log call always returns to main with the attempt's results
\* untouched and the process still running, and the transition that follows
\* (exit 0, sleep and retry, exit 1) is determined by the attempt's errors,
\* the attempt number and max_retries alone: it is the same whether
\* log_completion returned True or False.  (The interrupt is C13's case.)
C12_LogFailureIgnored ==
    /\ [][ (pc = "log" /\ exit_line' # 255) =>
              /\ pc' = "decide"
              /\ exit_code' = Running
              /\ <<attempt, all_errors, deleted_files, downloaded_files>>' =
                 <<attempt, all_errors, deleted_files, downloaded_files>> ]_vars
    /\ [][ (pc = "decide" /\ exit_line' # 255) =>
              /\ log_success' = log_success
              /\ all_errors = <<>> =>
                    pc' = "exit" /\ exit_code' = 0 /\ sleeps' = sleeps
              /\ (all_errors # <<>> /\ attempt < CONFIG.max_retries) =>
                    pc' = "sleep" /\ exit_code' = Running /\ sleeps' = sleeps + 1
              /\ (all_errors # <<>> /\ attempt >= CONFIG.max_retries) =>
                    pc' = "exit" /\ exit_code' = 1 /\ sleeps' = sleeps ]_vars

\* The process sleeps before a retry although the log write of the attempt
\* with errors failed.
C12_Witness ==
    /\ pc = "sleep" /\ log_calls = 1 /\ ~log_success
    /\ all_errors # <<>> /\ attempt < CONFIG.max_retries

\* C13: a KeyboardInterrupt may arrive in every state in which the process
\* runs (deletion, download, log call, decision, exception handler, sleep);
\* wherever it arrives the process exits at once with code 1 through the
\* handler of __main__ (line 255), in the attempt it was in, with the files
\* and the log as they were; no handler of a file or of the attempt absorbs
\* it, and nothing runs after the exit, so no further attempt starts.
C13_InterruptExits ==
    /\ pc # "exit" =>
          ENABLED (/\ Interrupt
                   /\ pc' = "exit" /\ exit_code' = 1 /\ exit_line' = 255
                   /\ attempt' = attempt /\ sleeps' = sleeps
                   /\ fs' = fs /\ log_file' = log_file)
    /\ pc # "exit" =>
          ~ ENABLED (Interrupt /\ ~ (pc' = "exit" /\ exit_code' = 1 /\ exit_line' = 255))
    /\ exit_line = 255 => (pc = "exit" /\ exit_code = 1)
    /\ pc = "exit" => ~ ENABLED Next

\* The interrupt arrived during the sleep that follows the first attempt: the
\* second attempt never started.
C13_Witness ==
    /\ pc = "exit" /\ exit_line = 255 /\ exit_code = 1
    /\ sleeps = 1 /\ attempt = 1 /\ CONFIG.max_retries = 2

\* The number of "Error deleting" messages of `errs`.
NumDeleteErrors(errs) == Len(SelectSeq(errs, LAMBDA m : m[1] = "Error deleting"))

\* C14: with max_retries = 1 the script is the simple variant.  There is one
\* attempt and no sleep; whatever the per-file results of the two steps, once
\* both have returned every file to delete has been handled once (deleted,
\* skipped or failed), then every file to download once (saved or failed),
\* the log has been called exactly once, and the process exits from the
\* decision with code 0 when no error was recorded in either step and with
\* code 1 otherwise, without retrying.  (An exception that ends the attempt
\* before the log call exits with code 1, also without sleep or retry.)
C14_SingleAttempt ==
    CONFIG.max_retries = 1 =>
        /\ sleeps = 0
        /\ attempt <= 1
        /\ pc \notin {"sleep", "after_loop"}
        /\ log_calls <= 1
        /\ (pc = "decide" \/ exit_line \in {208, 234}) =>
              /\ attempt = 1
              /\ log_calls = 1
              /\ Len(deleted_files) + Len(skipped) + NumDeleteErrors(all_errors)
                    = Len(CONFIG.files_to_delete)
              /\ Len(downloaded_files) + Len(DownloadErrorsOf(all_errors))
                    = Len(CONFIG.files_to_download)
              /\ Len(all_errors) =
                    NumDeleteErrors(all_errors) + Len(DownloadErrorsOf(all_errors))
        /\ (Exited /\ log_calls = 1 /\ exit_line # 255) =>
              /\ exit_line \in {208, 234}
              /\ exit_code = (IF all_errors = <<>> THEN 0 ELSE 1)
        /\ (Exited /\ log_calls = 0 /\ exit_line # 255) =>
              /\ exit_line = 244
              /\ exit_code = 1

\* With max_retries = 1 the attempt deleted one file, failed on the other,
\* downloaded one file and failed on the other, and the process exited with
\* code 1 after the log call.
C14_Witness ==
    /\ CONFIG.max_retries = 1 /\ Exited /\ exit_line = 234 /\ exit_code = 1
    /\ log_calls = 1 /\ sleeps = 0
    /\ Len(deleted_files) = 1 /\ NumDeleteErrors(all_errors) = 1
    /\ Len(downloaded_files) = 1 /\ Len(DownloadErrorsOf(all_errors)) = 1

\* The steps one attempt can take at most: one per file of either list, the
\* two returns, the directory check, the log call, the decision or the
\* handler, and the sleep.
AttemptSpan == Len(CONFIG.files_to_delete) + Len(CONFIG.files_to_download) + 8

\* How far the run has come: attempts started, then the position inside the
\* attempt.
Progress ==
    LET Ld == Len(CONFIG.files_to_delete)
        Lw == Len(CONFIG.files_to_download)
    IN  CASE pc = "start"      -> 0
          [] pc = "delete"     -> attempt * AttemptSpan + idx
          [] pc = "mkdir"      -> attempt * AttemptSpan + Ld + 2
          [] pc = "download"   -> attempt * AttemptSpan + Ld + 2 + idx
          [] pc = "log"        -> attempt * AttemptSpan + Ld + Lw + 4
          [] pc = "decide"     -> attempt * AttemptSpan + Ld + Lw + 5
          [] pc = "except"     -> attempt * AttemptSpan + Ld + Lw + 6
          [] pc = "sleep"      -> attempt * AttemptSpan + Ld + Lw + 7
          [] pc = "after_loop" -> (CONFIG.max_retries + 1) * AttemptSpan
          [] pc = "exit"       -> (CONFIG.max_retries + 1) * AttemptSpan + 1

\* C15: with max_retries >= 1 the run terminates, whatever the per-file
\* results, the log results and the exceptions.  Every step takes the run
\* strictly forward in a measure bounded by max_retries, and a run that has
\* not exited can always take a step of main (so it neither loops nor gets
\* stuck); it never starts more than max_retries attempts; the exit is one of
\* the three sys.exit calls inside the loop (lines 208, 234, 244) with code 0
\* or 1, leaving the interrupt aside; the code after the loop (line 248) is
\* never reached.
C15_Terminates ==
    /\ [](CONFIG.max_retries >= 1 =>
             /\ pc # "after_loop"
             /\ exit_line # 248
             /\ attempt <= CONFIG.max_retries
             /\ Progress <= (CONFIG.max_retries + 1) * AttemptSpan + 1
             /\ ~ Exited => ENABLED (Next /\ exit_line' # 255)
             /\ (Exited /\ exit_line # 255) =>
                   /\ exit_line \in {208, 234, 244}
                   /\ exit_code \in {0, 1}
                   /\ attempt \in 1..CONFIG.max_retries)
    /\ [][Progress' > Progress]_vars

\* Every one of the two attempts ended with an unexpected exception; the
\* handler exited after the last.
C15_Witness ==
    /\ Exited /\ exit_line = 244 /\ exit_code = 1
    /\ CONFIG.max_retries = 2 /\ attempt = 2 /\ sleeps = 1

\* C16: inside an attempt the steps come in the order Deleter, Downloader,
\* Logger, decision.  While the Deleter runs nothing has been downloaded or
\* logged in the attempt; files are removed only by the Deleter and written
\* only by the Downloader, which starts after the Deleter returned; the log
\* file is touched only by the log call, which follows the return of the
\* Downloader and precedes the decision; the process sleeps, or exits from the
\* decision, only after exactly one log call; and an attempt whose two steps
\* returned always makes that call, with or without errors.  (The interrupt
\* is left aside.)
C16_StepOrder ==
    /\ [](/\ pc = "delete" => (downloaded_files = <<>> /\ fetched = <<>> /\ log_calls = 0)
          /\ pc \in {"mkdir", "download", "log", "except"} => log_calls = 0
          /\ pc = "download" => Len(downloaded_files) + Len(errors) = idx - 1
          /\ pc = "decide" => log_calls = 1
          /\ exit_line \in {208, 234} => log_calls = 1
          /\ pc = "log" => ENABLED (LogCompletion /\ log_calls' = 1)
          /\ log_calls <= 1)
    /\ [][ exit_line' # 255 =>
              /\ pc = "delete" => pc' \in {"delete", "mkdir"}
              /\ pc = "mkdir" => pc' \in {"download", "except"}
              /\ pc = "download" => pc' \in {"download", "log", "except"}
              /\ pc = "log" => (pc' = "decide" /\ log_calls' = log_calls + 1)
              /\ pc = "decide" => pc' \in {"sleep", "exit"}
              /\ (pc = "download" /\ pc' = "log") =>
                    idx > Len(CONFIG.files_to_download)
              /\ (pc = "delete" /\ pc' = "mkdir") =>
                    idx > Len(CONFIG.files_to_delete) ]_vars
    /\ [][ /\ (\E p \in FsPaths : fs[p].exists /\ ~ fs'[p].exists) => pc = "delete"
           /\ (\E p \in FsPaths : fs'[p] # fs[p] /\ fs'[p].exists) => pc = "download"
           /\ (log_file' # log_file \/ log_calls' > log_calls) => pc = "log"
           /\ (pc' = "sleep" /\ pc = "decide") => log_calls = 1 ]_vars

\* The second attempt deleted a file, downloaded one, failed on another and
\* has made its log call.
C16_Witness ==
    /\ pc = "decide" /\ attempt = 2 /\ log_calls = 1
    /\ deleted_files # <<>> /\ downloaded_files # <<>> /\ all_errors # <<>>

\* The basenames of files_to_download are pairwise distinct.
DistinctBasenames ==
    \A j, k \in 1..Len(CONFIG.files_to_download) :
        j # k => Basename(CONFIG.files_to_download[j]) # Basename(CONFIG.files_to_download[k])

\* C17: when the process exits with code 0 and the basenames of
\* files_to_download are pairwise distinct, every configured path has a file
\* at download_folder/basename(path), and its content is the response body
\* fetched for that path in the final attempt.
C17_ExitZeroFilesFetched ==
    (Exited /\ exit_code = 0 /\ DistinctBasenames) =>
        /\ Len(fetched) = Len(CONFIG.files_to_download)
        /\ \A k \in 1..Len(CONFIG.files_to_download) :
              LET local_path == PathJoin(CONFIG.download_folder,
                                         Basename(CONFIG.files_to_download[k]))
              IN  /\ downloaded_files[k] = Basename(CONFIG.files_to_download[k])
                  /\ fetched[k] \in Bodies
                  /\ fs[local_path].exists
                  /\ fs[local_path].content = fetched[k]

\* Exit 0 after a retry, with two files of different bodies in the folder.
C17_Witness ==
    /\ Exited /\ exit_code = 0 /\ attempt = 2 /\ DistinctBasenames
    /\ Len(CONFIG.files_to_download) = 2
    /\ fetched = << <<1>>, <<2, 3>> >>
    /\ fs[PathJoin(CONFIG.download_folder, Basename(CONFIG.files_to_download[2]))]
          = File(<<2, 3>>)

\* The shape of the shipped configuration: one folder, the same files deleted
\* and downloaded.
SameFolderSameFiles ==
    /\ CONFIG.delete_folder = CONFIG.download_folder
    /\ CONFIG.files_to_delete = CONFIG.files_to_download

\* The attempt is over: main is at its decision or in its handler, sleeps, or
\* has exited from the loop.
AttemptOver == pc \in {"decide", "except", "sleep"} \/ exit_line \in {208, 234, 244}

\* The local path of the k-th file to download.
LocalPath(k) ==
    PathJoin(CONFIG.download_folder, Basename(CONFIG.files_to_download[k]))

\* The k-th file to download was reported downloaded in this attempt.
DownloadedInAttempt(k) ==
    Basename(CONFIG.files_to_download[k]) \in Range(downloaded_files)

\* The k-th file to download has a download error message in this attempt.
DownloadFailedInAttempt(k) ==
    \E m \in Range(DownloadErrorsOf(all_errors \o errors)) :
        m[2] = CONFIG.files_to_download[k]

\* C18 as claimed: in the shipped shape, after any attempt in which no
\* deletion failed, the configured files present are exactly those downloaded
\* in the attempt, and a file whose download failed in it is absent.
C18_PresentAreDownloaded ==
    (SameFolderSameFiles /\ AttemptOver /\ NumDeleteErrors(all_errors) = 0) =>
        \A k \in 1..Len(CONFIG.files_to_download) :
            /\ fs[LocalPath(k)].exists <=> DownloadedInAttempt(k)
            /\ DownloadFailedInAttempt(k) => ~ fs[LocalPath(k)].exists

\* C18, amended: in the shipped shape, after any attempt in which no deletion
\* failed, every file downloaded in the attempt is present and every file
\* whose download failed (status or network error) is absent, whatever
\* earlier attempts had downloaded; when the download step returned, the
\* files present are exactly the ones downloaded in the attempt; when an
\* exception ended the attempt, the only other file that can be present is
\* the one that was being written when the exception was raised.
C18_PresentAreDownloadedOrPartial ==
    (SameFolderSameFiles /\ AttemptOver /\ NumDeleteErrors(all_errors) = 0) =>
        \A k \in 1..Len(CONFIG.files_to_download) :
            /\ DownloadedInAttempt(k) => fs[LocalPath(k)].exists
            /\ DownloadFailedInAttempt(k) => ~ fs[LocalPath(k)].exists
            /\ log_calls = 1 => (fs[LocalPath(k)].exists <=> DownloadedInAttempt(k))
            /\ (fs[LocalPath(k)].exists /\ ~ DownloadedInAttempt(k)) =>
                  (log_calls = 0 /\ k = idx /\ ~ DownloadFailedInAttempt(k))

\* The process exits after a second attempt that deleted both files (present
\* since the first attempt), downloaded one again and failed on the other,
\* which is absent.
C18_Witness ==
    /\ SameFolderSameFiles /\ Exited /\ exit_line = 234 /\ attempt = 2
    /\ Len(CONFIG.files_to_download) = 2
    /\ Len(deleted_files) = 2 /\ all_errors = DownloadErrorsOf(all_errors)
    /\ DownloadFailedInAttempt(1) /\ ~ fs[LocalPath(1)].exists
    /\ DownloadedInAttempt(2) /\ fs[LocalPath(2)].exists

\* C19: a download that fails with a non-success status or a network error
\* (the step that records an "Error downloading" message) leaves the
\* destination download_folder/basename(path) as it was, absent or present
\* with the same content, and touches no other file; the file is not reported
\* downloaded.
C19_FailedDownloadLeavesFile ==
    [][ (pc = "download" /\ Len(errors') > Len(errors)) =>
           LET file_path == CONFIG.files_to_download[idx]
               local_path == PathJoin(CONFIG.download_folder, Basename(file_path))
           IN  /\ errors'[Len(errors')][1] = "Error downloading"
               /\ errors'[Len(errors')][2] = file_path
               /\ fs'[local_path].exists = fs[local_path].exists
               /\ fs'[local_path].content = fs[local_path].content
               /\ fs' = fs
               /\ downloaded_files' = downloaded_files ]_vars

\* In the second attempt the download of the first file has failed; the file
\* still holds the body the first attempt wrote to the separate download
\* folder.
C19_Witness ==
    /\ pc = "download" /\ attempt = 2 /\ idx = 2
    /\ CONFIG.download_folder = OtherFolder
    /\ Len(errors) = 1 /\ errors[1][2] = CONFIG.files_to_download[1]
    /\ downloaded_files = <<>>
    /\ fs[LocalPath(1)] = File(<<2, 3>>)

====
